---- MODULE Spec2Model ----
(***************************************************************************)
(* Location tracking and live routing: the LocationScreen component of     *)
(* app/(screens)/location-screen.tsx (the variant with routing, lines      *)
(* 168-469), the process-scope background task, sendLocationToServer, and   *)
(* fetchRoute / formatDistance / formatDuration of app/utils/mapboxUtils.ts *)
(*                                                                         *)
(* A session is one mount of LocationScreen: its start sequence is the     *)
(* async function of the useEffect, its stop request is the effect's       *)
(* cleanup.  Every await of the code is a suspension point: an action of    *)
(* the model is the completion of the awaited call together with the code  *)
(* that runs up to the next await (which issues the next call).            *)
(***************************************************************************)
EXTENDS Integers, Sequences, FiniteSets, Bags, TLC

\* ---------------------------------------------------------------- bounds
NumSessions == 2      \* mounts of LocationScreen, one after the other
MaxFg == 1            \* foreground samples delivered to one session
MaxBg == 1            \* background samples delivered to the process
MaxOverlap == 2       \* foreground samples whose route fetches overlap (SpecOrder)
MaxPoints == 2        \* coordinate items of a route geometry handed to fetchRoute
MaxMeters == 5000     \* distances handed to formatDistance: 0..MaxMeters
MaxSeconds == 600     \* durations handed to formatDuration: 0..MaxSeconds

Sessions == 1..NumSessions

\* A value of a useState / let slot that can be null: <<>> is null, <<v>> is v.
Null == <<>>
Some(v) == <<v>>

\* ------------------------------------------------------------ input data
\* Coordinates in 1e-4 degrees.
DESTINATION == [latitude |-> 162253, longitude |-> 778097]

\* Location.LocationObject values the platform can deliver.
Loc(lat, lon, acc, ts) ==
  [coords |-> [latitude |-> lat, longitude |-> lon, accuracy |-> acc], timestamp |-> ts]
LocA == Loc(162000, 777000, 5, 1)
LocB == Loc(162100, 777500, 8, 2)
Locations == {LocA, LocB}

\* Outcomes of a permission request.
PermissionStatuses == {"granted", "denied", "undetermined"}

\* Routes as the directions provider reports them: geometry.coordinates is a
\* list of [lon, lat] pairs; the geometry, or its coordinates, can be missing.
LineString(coords) == Some([coordinates |-> Some(coords)])
RawRouteA == [geometry |-> LineString(<< <<777000, 162000>>, <<778097, 162253>> >>),
              distance |-> 4200, duration |-> 480]
RawRouteB == [geometry |-> LineString(<< <<777500, 162100>>, <<777800, 162200>>,
                                         <<778097, 162253>> >>),
              distance |-> 2750, duration |-> 330]
RawRouteNoGeometry == [geometry |-> Null, distance |-> 100, duration |-> 60]

\* What awaiting fetch(url) and response.json() can produce: the fetch rejects,
\* or a response with an ok flag and a body whose routes entry may be absent.
HttpResponses ==
  { [rejected |-> TRUE,  ok |-> FALSE, routes |-> Null],
    [rejected |-> FALSE, ok |-> FALSE, routes |-> Some(<<RawRouteA>>)],
    [rejected |-> FALSE, ok |-> TRUE,  routes |-> Null],
    [rejected |-> FALSE, ok |-> TRUE,  routes |-> Some(<<>>)],
    [rejected |-> FALSE, ok |-> TRUE,  routes |-> Some(<<RawRouteNoGeometry>>)],
    [rejected |-> FALSE, ok |-> TRUE,  routes |-> Some(<<RawRouteA>>)],
    [rejected |-> FALSE, ok |-> TRUE,  routes |-> Some(<<RawRouteB, RawRouteA>>)] }

\* ------------------------------------------------- app/utils/mapboxUtils.ts
\* A string is modelled as the sequence of its characters.
DigitChars == <<"0", "1", "2", "3", "4", "5", "6", "7", "8", "9">>

RECURSIVE ToDigits(_)
\* The decimal digits of a natural number, as `${n}` prints them.
ToDigits(n) == IF n < 10 THEN <<DigitChars[n + 1]>>
               ELSE ToDigits(n \div 10) \o <<DigitChars[(n % 10) + 1]>>

RECURSIVE PowMod(_, _)
\* 2^e modulo m.
PowMod(e, m) == IF e = 0 THEN 1 % m ELSE (2 * PowMod(e - 1, m)) % m

RECURSIVE BinExp(_, _)
\* The binary exponent k of meters / 1000: 2^k <= meters / 1000 < 2^(k+1),
\* for meters > 0; acc is the exponent tried so far.
BinExp(meters, acc) ==
  IF meters >= 2000 THEN BinExp(meters \div 2, acc + 1)
  ELSE IF meters < 1000 THEN BinExp(meters * 2, acc - 1)
  ELSE acc

\* meters / 1000 is an IEEE double: the quotient rounded to 53 significant
\* bits.  DoubleErr is the sign of (that double - the exact quotient), from the
\* remainder of meters * 2^(52-k) modulo 1000 (it is never exactly 500).
DoubleErr(meters) ==
  IF meters = 0 THEN 0
  ELSE LET r == ((meters % 1000) * PowMod(52 - BinExp(meters, 0), 1000)) % 1000
       IN  IF r = 0 THEN 0 ELSE IF r < 500 THEN -1 ELSE 1

\* km.toFixed(1): the number of tenths n with n / 10 closest to the double km,
\* the larger n when two are equally close.
ToFixed1Tenths(meters) ==
  LET lo == meters \div 100
      rem == meters % 100
  IN  IF rem < 50 THEN lo
      ELSE IF rem > 50 THEN lo + 1
      ELSE IF DoubleErr(meters) >= 0 THEN lo + 1 ELSE lo

formatDistance(meters) ==
  LET n == ToFixed1Tenths(meters)
  IN  ToDigits(n \div 10) \o <<".">> \o ToDigits(n % 10) \o <<" ", "k", "m">>

\* Math.round(seconds / 60): halves round up; seconds / 60 is exact at every
\* half (seconds % 60 = 30) and no other quotient rounds to a half.
formatDuration(seconds) ==
  LET minutes == (seconds + 30) \div 60
  IN  ToDigits(minutes) \o <<" ", "m", "i", "n">>

\* The result of a promise: a value, or a rejection.
Resolved(v) == [ok |-> TRUE, value |-> Some(v)]
Rejected == [ok |-> FALSE, value |-> Null]

\* arr[i - 1] of the code: the element, or undefined (null here) past the end
\* of the array; it does not throw.
At(arr, i) == IF i <= Len(arr) THEN Some(arr[i]) ELSE Null

\* route.geometry.coordinates.map(coord => ({latitude: coord[1], longitude: coord[0]}))
ToLatLng(coords) ==
  [i \in 1..Len(coords) |-> [latitude |-> At(coords[i], 2), longitude |-> At(coords[i], 1)]]

\* fetchRoute, from the awaited HTTP response on: every throw is caught,
\* logged and rethrown, so the promise rejects.  Reading .coordinates of a
\* missing geometry, or .map of missing coordinates, throws.
fetchRoute(resp) ==
  IF resp.rejected THEN Rejected
  ELSE IF ~resp.ok THEN Rejected
  ELSE IF resp.routes = Null \/ Len(resp.routes[1]) = 0 THEN Rejected
  ELSE LET r == resp.routes[1][1]
       IN  IF r.geometry = Null \/ r.geometry[1].coordinates = Null THEN Rejected
           ELSE Resolved([coordinates |-> ToLatLng(r.geometry[1].coordinates[1]),
                          distance |-> r.distance,
                          duration |-> r.duration])

\* ------------------------------------------------------------------ state
VARIABLES
  pc,                   \* per session: the await the start sequence is suspended on
  cpc,                  \* per session: the await the cleanup is suspended on
  location,             \* useState location (null or a LocationObject)
  errorMsg,             \* useState errorMsg
  route,                \* useState route (null or a RouteResponse)
  routeInfo,            \* useState routeInfo (null or {distance, duration})
  isLoading,            \* useState isLoading
  locationSubscription, \* the effect's let locationSubscription
  watching,             \* the platform delivers foreground samples to the session
  inflight,             \* fetchRoute calls of foreground callbacks not yet settled
  calls,                \* per session: how many calls of each kind it has issued
  fgStatus,             \* per session: what the foreground permission request gave
  bgStatus,             \* per session: what the background permission request gave
  lastResult,           \* per session: how the fetchRoute that settled last ended
  fetches,              \* per session: the fetchRoute requests issued so far
  bgRegistered,         \* process: LOCATION_TASK_NAME has location updates started
  bgCount,              \* process: samples delivered to the background task
  sockets,              \* process: the sockets opened by sendLocationToServer (a bag)
  callArg,              \* a direct call of a function of mapboxUtils.ts: its argument
  callResult            \* and what it returned (null before the call)

sessionVars == <<pc, cpc, location, errorMsg, route, routeInfo, isLoading,
                 locationSubscription, watching, inflight, calls,
                 fgStatus, bgStatus, lastResult, fetches>>
utilVars == <<callArg, callResult>>
vars == <<sessionVars, bgRegistered, bgCount, sockets, utilVars>>

CallKinds == {"getCurrentPosition", "send", "fetchRoute", "watchPosition",
              "hasStarted", "startLocationUpdates"}

InitProgram ==
  /\ pc = [s \in Sessions |-> "idle"]
  /\ cpc = [s \in Sessions |-> "idle"]
  /\ location = [s \in Sessions |-> Null]
  /\ errorMsg = [s \in Sessions |-> Null]
  /\ route = [s \in Sessions |-> Null]
  /\ routeInfo = [s \in Sessions |-> Null]
  /\ isLoading = [s \in Sessions |-> TRUE]
  /\ locationSubscription = [s \in Sessions |-> Null]
  /\ watching = [s \in Sessions |-> FALSE]
  /\ inflight = [s \in Sessions |-> {}]
  /\ calls = [s \in Sessions |-> [k \in CallKinds |-> 0]]
  /\ fgStatus = [s \in Sessions |-> "none"]
  /\ bgStatus = [s \in Sessions |-> "none"]
  /\ lastResult = [s \in Sessions |-> Null]
  /\ fetches = [s \in Sessions |-> {}]
  /\ bgRegistered = FALSE
  /\ bgCount = 0
  /\ sockets = EmptyBag

Init ==
  /\ InitProgram
  /\ callArg = Null
  /\ callResult = Null

\* One more call of kind k by session s.
Called(c, s, k) == [c EXCEPT ![s][k] = @ + 1]

\* -------------------------------------------------- sendLocationToServer
\* io(url) opens a socket and the two handlers are registered; nothing is
\* awaited, so the call returns with the socket still connecting and nothing
\* emitted.
sendLocationToServer(socks, loc) ==
  socks (+) SetToBag({[loc |-> loc, st |-> "connecting", emitted |-> <<>>]})

\* The payload of the 'location' event.
Payload(loc) == [latitude |-> loc.coords.latitude, longitude |-> loc.coords.longitude,
                 accuracy |-> loc.coords.accuracy, timestamp |-> loc.timestamp]

\* Socket k of the bag becomes k2.
ReplaceSocket(k, k2) ==
  sockets' = (sockets (-) SetToBag({k})) (+) SetToBag({k2})

\* socket.on('connect'): the payload is emitted and the disconnect timer set.
SocketConnect(k) ==
  /\ UNCHANGED utilVars
  /\ BagIn(k, sockets) /\ k.st \in {"connecting", "retrying"}
  /\ ReplaceSocket(k, [k EXCEPT !.st = "open", !.emitted = Append(@, Payload(k.loc))])
  /\ UNCHANGED <<sessionVars, bgRegistered, bgCount>>

\* socket.on('connect_error'): logged; the client keeps trying to connect.
SocketConnectError(k) ==
  /\ UNCHANGED utilVars
  /\ BagIn(k, sockets) /\ k.st = "connecting"
  /\ ReplaceSocket(k, [k EXCEPT !.st = "retrying"])
  /\ UNCHANGED <<sessionVars, bgRegistered, bgCount>>

\* setTimeout(() => socket.disconnect(), 1000)
SocketDisconnect(k) ==
  /\ UNCHANGED utilVars
  /\ BagIn(k, sockets) /\ k.st = "open"
  /\ ReplaceSocket(k, [k EXCEPT !.st = "closed"])
  /\ UNCHANGED <<sessionVars, bgRegistered, bgCount>>

\* ---------------------------------------------------------- updateRoute
\* updateRoute with a catch that clears the route.
updateRoute_ClearsOnFailure(cur, res) ==
  IF res.ok
  THEN [route |-> Some(res.value[1]),
        routeInfo |-> Some([distance |-> formatDistance(res.value[1].distance),
                            duration |-> formatDuration(res.value[1].duration)])]
  ELSE [route |-> Null, routeInfo |-> Null]

\* The published route and route info after updateRoute's fetchRoute settled
\* with res, given the ones before: a rejection is caught and logged.
updateRoute(cur, res) ==
  IF res.ok
  THEN [route |-> Some(res.value[1]),
        routeInfo |-> Some([distance |-> formatDistance(res.value[1].distance),
                            duration |-> formatDuration(res.value[1].duration)])]
  ELSE cur

Published(s) == [route |-> route[s], routeInfo |-> routeInfo[s]]

\* The n-th fetchRoute call of a session, as updateRoute makes it for the
\* sample cur: the origin is the sample's coordinates, the destination is
\* DESTINATION.
RouteRequest(n, cur) ==
  [id |-> n,
   origin |-> [latitude |-> cur.coords.latitude, longitude |-> cur.coords.longitude],
   destination |-> DESTINATION]

\* ------------------------------------ LocationScreen: the start sequence
\* The component mounts and its effect runs: the async function starts and
\* suspends on requestForegroundPermissionsAsync.  A screen is mounted again
\* only after the cleanup of the previous mount has run.
Start(s) ==
  /\ UNCHANGED <<fetches, utilVars>>
  /\ pc[s] = "idle"
  /\ IF s = 1 THEN TRUE ELSE cpc[s - 1] # "idle"
  /\ pc' = [pc EXCEPT ![s] = "fgPerm"]
  /\ UNCHANGED <<cpc, location, errorMsg, route, routeInfo, isLoading,
                 locationSubscription, watching, inflight, calls,
                 fgStatus, bgStatus, lastResult,
                 bgRegistered, bgCount, sockets>>

\* FgPermDone without the return after setErrorMsg.
FgPermDone_NoReturn(s, status) ==
  /\ UNCHANGED <<fetches, utilVars>>
  /\ pc[s] = "fgPerm"
  /\ fgStatus' = [fgStatus EXCEPT ![s] = status]
  /\ IF status = "threw"
     THEN /\ pc' = [pc EXCEPT ![s] = "crashed"]
          /\ UNCHANGED errorMsg
     ELSE /\ errorMsg' = [errorMsg EXCEPT ![s] =
                           IF status # "granted"
                           THEN Some("Permission to access location was denied")
                           ELSE @]
          /\ pc' = [pc EXCEPT ![s] = "bgPerm"]
  /\ UNCHANGED <<cpc, location, route, routeInfo, isLoading,
                 locationSubscription, watching, inflight, calls,
                 bgStatus, lastResult,
                 bgRegistered, bgCount, sockets>>

\* requestForegroundPermissionsAsync settles: a status, or "threw".
FgPermDone(s, status) ==
  /\ UNCHANGED <<fetches, utilVars>>
  /\ pc[s] = "fgPerm"
  /\ fgStatus' = [fgStatus EXCEPT ![s] = status]
  /\ IF status = "threw"
     THEN /\ pc' = [pc EXCEPT ![s] = "crashed"]
          /\ UNCHANGED errorMsg
     ELSE IF status # "granted"
     THEN /\ errorMsg' = [errorMsg EXCEPT ![s] = Some("Permission to access location was denied")]
          /\ pc' = [pc EXCEPT ![s] = "done"]
     ELSE /\ pc' = [pc EXCEPT ![s] = "bgPerm"]
          /\ UNCHANGED errorMsg
  /\ UNCHANGED <<cpc, location, route, routeInfo, isLoading,
                 locationSubscription, watching, inflight, calls,
                 bgStatus, lastResult,
                 bgRegistered, bgCount, sockets>>

\* BgPermDone without the try/catch around the background request.
BgPermDone_ThrowEscapes(s, status) ==
  /\ UNCHANGED <<fetches, utilVars>>
  /\ pc[s] = "bgPerm"
  /\ bgStatus' = [bgStatus EXCEPT ![s] = status]
  /\ IF status = "threw"
     THEN /\ pc' = [pc EXCEPT ![s] = "crashed"]
          /\ UNCHANGED calls
     ELSE /\ calls' = Called(calls, s, "getCurrentPosition")
          /\ pc' = [pc EXCEPT ![s] = "getPos"]
  /\ UNCHANGED <<cpc, location, errorMsg, route, routeInfo, isLoading,
                 locationSubscription, watching, inflight,
                 fgStatus, lastResult,
                 bgRegistered, bgCount, sockets>>

\* requestBackgroundPermissionsAsync settles: whatever the status, and also
\* when it throws, the sequence goes on to getCurrentPositionAsync.
BgPermDone(s, status) ==
  /\ UNCHANGED <<fetches, utilVars>>
  /\ pc[s] = "bgPerm"
  /\ bgStatus' = [bgStatus EXCEPT ![s] = status]
  /\ calls' = Called(calls, s, "getCurrentPosition")
  /\ pc' = [pc EXCEPT ![s] = "getPos"]
  /\ UNCHANGED <<cpc, location, errorMsg, route, routeInfo, isLoading,
                 locationSubscription, watching, inflight,
                 fgStatus, lastResult,
                 bgRegistered, bgCount, sockets>>

\* getCurrentPositionAsync settles.  A rejection is caught by nothing: the
\* async function ends there.  Otherwise setLocation(loc), the send, and
\* updateRoute(loc) suspends on fetchRoute.
GetPosDone(s, res) ==
  /\ UNCHANGED utilVars
  /\ pc[s] = "getPos"
  /\ IF res.ok
     THEN /\ location' = [location EXCEPT ![s] = res.value]
          /\ sockets' = sendLocationToServer(sockets, res.value[1])
          /\ calls' = Called(Called(calls, s, "send"), s, "fetchRoute")
          /\ fetches' = [fetches EXCEPT ![s] =
                           @ \cup {RouteRequest(calls[s]["fetchRoute"] + 1, res.value[1])}]
          /\ pc' = [pc EXCEPT ![s] = "initRoute"]
     ELSE /\ pc' = [pc EXCEPT ![s] = "crashed"]
          /\ UNCHANGED <<location, sockets, calls, fetches>>
  /\ UNCHANGED <<cpc, errorMsg, route, routeInfo, isLoading,
                 locationSubscription, watching, inflight,
                 fgStatus, bgStatus, lastResult,
                 bgRegistered, bgCount>>

\* The initial updateRoute settles (resp is what the HTTP request gave), then
\* setIsLoading(false) and the sequence suspends on watchPositionAsync.
InitRouteDone(s, resp) ==
  /\ UNCHANGED <<fetches, utilVars>>
  /\ pc[s] = "initRoute"
  /\ lastResult' = [lastResult EXCEPT ![s] = Some(fetchRoute(resp))]
  /\ LET new == updateRoute(Published(s), fetchRoute(resp))
     IN  /\ route' = [route EXCEPT ![s] = new.route]
         /\ routeInfo' = [routeInfo EXCEPT ![s] = new.routeInfo]
  /\ isLoading' = [isLoading EXCEPT ![s] = FALSE]
  /\ calls' = Called(calls, s, "watchPosition")
  /\ pc' = [pc EXCEPT ![s] = "watch"]
  /\ UNCHANGED <<cpc, location, errorMsg,
                 locationSubscription, watching, inflight,
                 fgStatus, bgStatus,
                 bgRegistered, bgCount, sockets>>

\* watchPositionAsync settles: the subscription is stored in
\* locationSubscription and the platform starts delivering samples; then the
\* sequence suspends on hasStartedLocationUpdatesAsync.  A rejection is
\* caught by nothing.
WatchDone(s, ok) ==
  /\ UNCHANGED <<fetches, utilVars>>
  /\ pc[s] = "watch"
  /\ IF ok
     THEN /\ locationSubscription' = [locationSubscription EXCEPT ![s] = Some(s)]
          /\ watching' = [watching EXCEPT ![s] = TRUE]
          /\ calls' = Called(calls, s, "hasStarted")
          /\ pc' = [pc EXCEPT ![s] = "bgCheck"]
     ELSE /\ pc' = [pc EXCEPT ![s] = "crashed"]
          /\ UNCHANGED <<locationSubscription, watching, calls>>
  /\ UNCHANGED <<cpc, location, errorMsg, route, routeInfo, isLoading, inflight,
                 fgStatus, bgStatus, lastResult,
                 bgRegistered, bgCount, sockets>>

\* hasStartedLocationUpdatesAsync settles with the registration as it is now;
\* if the task is not started, startLocationUpdatesAsync is called.  A throw
\* of the check is caught and logged.
BgCheckDone(s, ok) ==
  /\ UNCHANGED <<fetches, utilVars>>
  /\ pc[s] = "bgCheck"
  /\ IF ok /\ ~bgRegistered
     THEN /\ calls' = Called(calls, s, "startLocationUpdates")
          /\ pc' = [pc EXCEPT ![s] = "bgStart"]
     ELSE /\ pc' = [pc EXCEPT ![s] = "done"]
          /\ UNCHANGED calls
  /\ UNCHANGED <<cpc, location, errorMsg, route, routeInfo, isLoading,
                 locationSubscription, watching, inflight,
                 fgStatus, bgStatus, lastResult,
                 bgRegistered, bgCount, sockets>>

\* startLocationUpdatesAsync settles: the task is registered, or the call
\* threw and the failure is logged.
BgStartDone(s, ok) ==
  /\ UNCHANGED <<fetches, utilVars>>
  /\ pc[s] = "bgStart"
  /\ bgRegistered' = (ok \/ bgRegistered)
  /\ pc' = [pc EXCEPT ![s] = "done"]
  /\ UNCHANGED <<cpc, location, errorMsg, route, routeInfo, isLoading,
                 locationSubscription, watching, inflight, calls,
                 fgStatus, bgStatus, lastResult,
                 bgCount, sockets>>

\* ------------------------------ the watchPositionAsync callback
\* FgCallback with a send that waits for its socket to connect: the callback
\* suspends in the send, and updateRoute is not called in this step.
FgCallback_AwaitsConnection(s, loc) ==
  /\ UNCHANGED utilVars
  /\ watching[s]
  /\ location' = [location EXCEPT ![s] = Some(loc)]
  /\ sockets' = sendLocationToServer(sockets, loc)
  /\ calls' = Called(calls, s, "send")
  /\ UNCHANGED <<pc, cpc, errorMsg, route, routeInfo, isLoading,
                 locationSubscription, watching, inflight,
                 fgStatus, bgStatus, lastResult, fetches,
                 bgRegistered, bgCount>>

\* A foreground sample is delivered: setLocation, the send, and updateRoute
\* suspends on fetchRoute for this sample.
FgCallback(s, loc) ==
  /\ UNCHANGED utilVars
  /\ watching[s]
  /\ location' = [location EXCEPT ![s] = Some(loc)]
  /\ sockets' = sendLocationToServer(sockets, loc)
  /\ calls' = Called(Called(calls, s, "send"), s, "fetchRoute")
  /\ fetches' = [fetches EXCEPT ![s] =
                   @ \cup {RouteRequest(calls[s]["fetchRoute"] + 1, loc)}]
  /\ inflight' = [inflight EXCEPT ![s] =
                    @ \cup {[id |-> calls[s]["fetchRoute"] + 1, origin |-> loc]}]
  /\ UNCHANGED <<pc, cpc, errorMsg, route, routeInfo, isLoading,
                 locationSubscription, watching,
                 fgStatus, bgStatus, lastResult,
                 bgRegistered, bgCount>>

\* The callback for at most n samples of a session, at most n of their
\* fetches in flight at once.
FgCallbackUpTo(n, s, loc) ==
  /\ Cardinality(inflight[s]) + 1 <= n
  /\ calls[s]["fetchRoute"] < 1 + n
  /\ FgCallback(s, loc)

\* CallbackRouteDone with an updateRoute that calls fetchRoute once more
\* when the fetch of a sample rejected.
CallbackRouteDone_Retries(s, f, resp) ==
  /\ UNCHANGED utilVars
  /\ f \in inflight[s]
  /\ lastResult' = [lastResult EXCEPT ![s] = Some(fetchRoute(resp))]
  /\ LET new == updateRoute(Published(s), fetchRoute(resp))
     IN  /\ route' = [route EXCEPT ![s] = new.route]
         /\ routeInfo' = [routeInfo EXCEPT ![s] = new.routeInfo]
  /\ IF fetchRoute(resp).ok \/ f.id > 1 + MaxFg
     THEN /\ inflight' = [inflight EXCEPT ![s] = @ \ {f}]
          /\ UNCHANGED <<calls, fetches>>
     ELSE LET n == calls[s]["fetchRoute"] + 1
          IN  /\ inflight' = [inflight EXCEPT ![s] =
                                (@ \ {f}) \cup {[id |-> n, origin |-> f.origin]}]
              /\ calls' = Called(calls, s, "fetchRoute")
              /\ fetches' = [fetches EXCEPT ![s] = @ \cup {RouteRequest(n, f.origin)}]
  /\ UNCHANGED <<pc, cpc, location, errorMsg, isLoading,
                 locationSubscription, watching,
                 fgStatus, bgStatus,
                 bgRegistered, bgCount, sockets>>

\* The updateRoute of a foreground callback settles.
CallbackRouteDone(s, f, resp) ==
  /\ UNCHANGED <<fetches, utilVars>>
  /\ f \in inflight[s]
  /\ lastResult' = [lastResult EXCEPT ![s] = Some(fetchRoute(resp))]
  /\ LET new == updateRoute(Published(s), fetchRoute(resp))
     IN  /\ route' = [route EXCEPT ![s] = new.route]
         /\ routeInfo' = [routeInfo EXCEPT ![s] = new.routeInfo]
  /\ inflight' = [inflight EXCEPT ![s] = @ \ {f}]
  /\ UNCHANGED <<pc, cpc, location, errorMsg, isLoading,
                 locationSubscription, watching, calls,
                 fgStatus, bgStatus,
                 bgRegistered, bgCount, sockets>>

\* ------------------------------------- LocationScreen: the effect cleanup
\* The component unmounts: the subscription is removed if the start sequence
\* has stored it already, and the async part suspends on
\* hasStartedLocationUpdatesAsync.
Stop(s) ==
  /\ UNCHANGED <<fetches, utilVars>>
  /\ pc[s] # "idle"
  /\ cpc[s] = "idle"
  /\ watching' = [watching EXCEPT ![s] =
                    IF locationSubscription[s] # Null THEN FALSE ELSE @]
  /\ cpc' = [cpc EXCEPT ![s] = "check"]
  /\ UNCHANGED <<pc, location, errorMsg, route, routeInfo, isLoading,
                 locationSubscription, inflight, calls,
                 fgStatus, bgStatus, lastResult,
                 bgRegistered, bgCount, sockets>>

\* The cleanup's hasStartedLocationUpdatesAsync settles; if the task is
\* started, stopLocationUpdatesAsync is called.  A throw is caught and logged.
CleanupCheckDone(s, ok) ==
  /\ UNCHANGED <<fetches, utilVars>>
  /\ cpc[s] = "check"
  /\ cpc' = [cpc EXCEPT ![s] = IF ok /\ bgRegistered THEN "stop" ELSE "done"]
  /\ UNCHANGED <<pc, location, errorMsg, route, routeInfo, isLoading,
                 locationSubscription, watching, inflight, calls,
                 fgStatus, bgStatus, lastResult,
                 bgRegistered, bgCount, sockets>>

\* The cleanup's stopLocationUpdatesAsync settles: the task is stopped, or the
\* call threw, which is caught and logged.
CleanupStopDone(s, ok) ==
  /\ UNCHANGED <<fetches, utilVars>>
  /\ cpc[s] = "stop"
  /\ bgRegistered' = (bgRegistered /\ ~ok)
  /\ cpc' = [cpc EXCEPT ![s] = "done"]
  /\ UNCHANGED <<pc, location, errorMsg, route, routeInfo, isLoading,
                 locationSubscription, watching, inflight, calls,
                 fgStatus, bgStatus, lastResult,
                 bgCount, sockets>>

\* --------------------------------- TaskManager.defineTask(LOCATION_TASK_NAME)
\* What the platform hands to the task: an error, or data with locations.
TaskBodies ==
  {[error |-> TRUE, locations |-> <<>>]}
    \cup {[error |-> FALSE, locations |-> <<l>>] : l \in Locations}
    \cup {[error |-> FALSE, locations |-> <<LocB, LocA>>]}

\* BackgroundTask that also publishes the sample as the sessions' location.
BackgroundTask_Publishes(body) ==
  /\ UNCHANGED <<fetches, utilVars>>
  /\ bgRegistered
  /\ bgCount < MaxBg
  /\ bgCount' = bgCount + 1
  /\ sockets' = IF body.error THEN sockets
                ELSE sendLocationToServer(sockets, body.locations[1])
  /\ location' = IF body.error THEN location
                 ELSE [s \in Sessions |-> Some(body.locations[1])]
  /\ UNCHANGED <<pc, cpc, errorMsg, route, routeInfo, isLoading,
                 locationSubscription, watching, inflight, calls,
                 fgStatus, bgStatus, lastResult, bgRegistered>>

\* The background task runs: an error is logged, otherwise locations[0] is sent.
BackgroundTask(body) ==
  /\ UNCHANGED utilVars
  /\ bgRegistered
  /\ bgCount < MaxBg
  /\ bgCount' = bgCount + 1
  /\ sockets' = IF body.error THEN sockets
                ELSE sendLocationToServer(sockets, body.locations[1])
  /\ UNCHANGED <<sessionVars, bgRegistered>>

\* ---------------------------------------------------------- specification
SocketStates == {"connecting", "retrying", "open", "closed"}
SocketValues == [loc : Locations, st : SocketStates,
                 emitted : {<<>>} \cup {<<Payload(l)>> : l \in Locations}]
Outcomes == {Rejected} \cup {Resolved(l) : l \in Locations}

\* Spec follows one session with every input and every step of the session,
\* the cleanup and the background task.  The socket handlers read and write
\* nothing but the sockets, which no step of a session reads; they run in
\* SpecSend.
Tracked == {1}

Next ==
  \/ \E s \in Tracked : Start(s)
  \/ \E s \in Tracked, st \in PermissionStatuses \cup {"threw"} : FgPermDone(s, st)
  \/ \E s \in Tracked, st \in PermissionStatuses \cup {"threw"} : BgPermDone(s, st)
  \/ \E s \in Tracked, res \in Outcomes : GetPosDone(s, res)
  \/ \E s \in Tracked, resp \in HttpResponses : InitRouteDone(s, resp)
  \/ \E s \in Tracked, ok \in BOOLEAN : WatchDone(s, ok)
  \/ \E s \in Tracked, ok \in BOOLEAN : BgCheckDone(s, ok)
  \/ \E s \in Tracked, ok \in BOOLEAN : BgStartDone(s, ok)
  \/ \E s \in Tracked, loc \in Locations : FgCallbackUpTo(MaxFg, s, loc)
  \/ \E s \in Tracked : \E f \in inflight[s], resp \in HttpResponses :
        CallbackRouteDone(s, f, resp)
  \/ \E s \in Tracked : Stop(s)
  \/ \E s \in Tracked, ok \in BOOLEAN : CleanupCheckDone(s, ok)
  \/ \E s \in Tracked, ok \in BOOLEAN : CleanupStopDone(s, ok)
  \/ \E body \in TaskBodies : BackgroundTask(body)

Spec == Init /\ [][Next]_vars

\* SpecSend follows the sends of one session and of the background task
\* through their sockets.  The platform calls of the session succeed, so that
\* every send of the session happens; the samples and the route lookups vary.
RouteAResponse == [rejected |-> FALSE, ok |-> TRUE, routes |-> Some(<<RawRouteA>>)]
SendResponses == {resp \in HttpResponses :
                    resp.rejected \/ (resp.ok /\ resp.routes = Some(<<RawRouteA>>))}

NextSend ==
  \/ \E s \in Tracked : Start(s)
  \/ \E s \in Tracked : FgPermDone(s, "granted")
  \/ \E s \in Tracked : BgPermDone(s, "granted")
  \/ \E s \in Tracked, loc \in Locations : GetPosDone(s, Resolved(loc))
  \/ \E s \in Tracked, resp \in SendResponses : InitRouteDone(s, resp)
  \/ \E s \in Tracked : WatchDone(s, TRUE)
  \/ \E s \in Tracked : BgCheckDone(s, TRUE)
  \/ \E s \in Tracked : BgStartDone(s, TRUE)
  \/ \E s \in Tracked, loc \in Locations : FgCallbackUpTo(MaxFg, s, loc)
  \/ \E s \in Tracked : \E f \in inflight[s], resp \in SendResponses :
        CallbackRouteDone(s, f, resp)
  \/ \E s \in Tracked : Stop(s)
  \/ \E s \in Tracked : CleanupCheckDone(s, TRUE)
  \/ \E s \in Tracked : CleanupStopDone(s, TRUE)
  \/ \E body \in TaskBodies : BackgroundTask(body)
  \/ \E k \in SocketValues : SocketConnect(k)
  \/ \E k \in SocketValues : SocketConnectError(k)
  \/ \E k \in SocketValues : SocketDisconnect(k)

SpecSend == Init /\ [][NextSend]_vars

\* SpecSessions follows the screen being mounted, unmounted and mounted again:
\* the start sequences and cleanups of all sessions interleave at their
\* awaits.  The platform calls succeed and the data is fixed, so that the
\* sessions differ only in how their steps interleave.
NextSessions ==
  \/ \E s \in Sessions : Start(s)
  \/ \E s \in Sessions, st \in {"granted", "denied"} : FgPermDone(s, st)
  \/ \E s \in Sessions : BgPermDone(s, "granted")
  \/ \E s \in Sessions : GetPosDone(s, Resolved(LocA))
  \/ \E s \in Sessions : InitRouteDone(s, RouteAResponse)
  \/ \E s \in Sessions : WatchDone(s, TRUE)
  \/ \E s \in Sessions : BgCheckDone(s, TRUE)
  \/ \E s \in Sessions : BgStartDone(s, TRUE)
  \/ \E s \in Sessions : Stop(s)
  \/ \E s \in Sessions : CleanupCheckDone(s, TRUE)
  \/ \E s \in Sessions : CleanupStopDone(s, TRUE)

SpecSessions == Init /\ [][NextSessions]_vars

\* SpecOrder follows the route fetches of one session when they overlap: the
\* platform calls succeed, several foreground samples arrive while earlier
\* fetches are in flight, and the fetches settle in any order.  The provider
\* answers every request with the route from the request's origin.
ProviderResponse(origin) ==
  [rejected |-> FALSE, ok |-> TRUE,
   routes |-> Some(<<IF origin = LocA THEN RawRouteA ELSE RawRouteB>>)]

NextOrder ==
  \/ \E s \in Tracked : Start(s)
  \/ \E s \in Tracked : FgPermDone(s, "granted")
  \/ \E s \in Tracked : BgPermDone(s, "granted")
  \/ \E s \in Tracked, loc \in Locations : GetPosDone(s, Resolved(loc))
  \/ \E s \in Tracked : InitRouteDone(s, ProviderResponse(location[s][1]))
  \/ \E s \in Tracked : WatchDone(s, TRUE)
  \/ \E s \in Tracked : BgCheckDone(s, TRUE)
  \/ \E s \in Tracked : BgStartDone(s, TRUE)
  \/ \E s \in Tracked, loc \in Locations : FgCallbackUpTo(MaxOverlap, s, loc)
  \/ \E s \in Tracked : \E f \in inflight[s] :
        CallbackRouteDone(s, f, ProviderResponse(f.origin))

SpecOrder == Init /\ [][NextOrder]_vars

\* ------------------------------------- direct calls of app/utils/mapboxUtils.ts
\* Coordinate items a response can carry: [lon, lat] pairs, and arrays that
\* are not pairs.
CoordItems == {<<777000, 162000>>, <<778097, 162253>>, <<777500>>, <<>>}
CoordLists == UNION {[1..n -> CoordItems] : n \in 0..MaxPoints}
RawGeometries == {Null, Some([coordinates |-> Null])}
                   \cup {LineString(c) : c \in CoordLists}
RawRoutes == [geometry : RawGeometries, distance : {4200, 2750}, duration : {480, 330}]

\* HTTP responses handed to fetchRoute.
FetchResponses ==
  HttpResponses
    \cup {[rejected |-> FALSE, ok |-> o, routes |-> Some(<<r>>)] :
            r \in RawRoutes, o \in BOOLEAN}
    \cup {[rejected |-> FALSE, ok |-> TRUE, routes |-> Some(<<r, RawRouteA>>)] :
            r \in RawRoutes}

\* A call of one of the three functions with its input.
UtilCalls ==
  {[fn |-> "fetchRoute", resp |-> r] : r \in FetchResponses}
    \cup {[fn |-> "formatDistance", meters |-> m] : m \in 0..MaxMeters}
    \cup {[fn |-> "formatDuration", seconds |-> n] : n \in 0..MaxSeconds}

InitUtils ==
  /\ InitProgram
  /\ callArg \in {Some(c) : c \in UtilCalls}
  /\ callResult = Null

\* The call runs and returns.
CallFetchRoute ==
  /\ callResult = Null /\ callArg[1].fn = "fetchRoute"
  /\ callResult' = Some(fetchRoute(callArg[1].resp))
  /\ UNCHANGED <<sessionVars, bgRegistered, bgCount, sockets, callArg>>

CallFormatDistance ==
  /\ callResult = Null /\ callArg[1].fn = "formatDistance"
  /\ callResult' = Some(formatDistance(callArg[1].meters))
  /\ UNCHANGED <<sessionVars, bgRegistered, bgCount, sockets, callArg>>

CallFormatDuration ==
  /\ callResult = Null /\ callArg[1].fn = "formatDuration"
  /\ callResult' = Some(formatDuration(callArg[1].seconds))
  /\ UNCHANGED <<sessionVars, bgRegistered, bgCount, sockets, callArg>>

NextUtils == CallFetchRoute \/ CallFormatDistance \/ CallFormatDuration

SpecUtils == InitUtils /\ [][NextUtils]_vars


\* ------------------------------------------------------------- properties
\* The states of a session as the design names them.
Stopped(s) == cpc[s] # "idle"
Failed(s) == errorMsg[s] # Null

\* A step in which the updateRoute of session s settles.
RouteSettles(s) ==
  \/ pc[s] = "initRoute" /\ pc'[s] # "initRoute"
  \/ inflight'[s] # inflight[s] /\ inflight'[s] \subseteq inflight[s]

\* A step in which the watchPositionAsync callback of session s runs.
CallbackFires(s) ==
  inflight'[s] # inflight[s] /\ inflight[s] \subseteq inflight'[s]

\* C1: once the cleanup of a session has run, no updateRoute that is still in
\* flight writes its result: route and routeInfo keep the values they had when
\* the session was stopped.
C1_NoPublishAfterStop ==
  [][\A s \in Sessions :
       Stopped(s) => route'[s] = route[s] /\ routeInfo'[s] = routeInfo[s]]_vars

\* C2: once the cleanup of a session has run, at whatever await of the start
\* sequence, the watchPositionAsync callback never fires again for it.
C2_NoCallbackAfterStop ==
  [][\A s \in Sessions : CallbackFires(s) => ~Stopped(s)]_vars

\* C3: a foreground permission request that returns a status other than
\* granted sets the error message and ends the start sequence: the session
\* issues no getCurrentPosition, send, fetchRoute, watchPosition or background
\* call, then or later.
C3_DeniedIssuesNothing ==
  \A s \in Sessions :
    fgStatus[s] \in PermissionStatuses \ {"granted"} =>
      /\ Failed(s)
      /\ pc[s] = "done"
      /\ \A k \in CallKinds : calls[s][k] = 0
      /\ locationSubscription[s] = Null /\ ~watching[s]
      /\ location[s] = Null /\ route[s] = Null

C3_Witness ==
  \E s \in Sessions : fgStatus[s] = "undetermined" /\ Failed(s) /\ cpc[s] = "done"

\* C4: with foreground permission granted, whatever the background permission
\* request gave (granted, denied, undetermined, or a throw), the session is
\* not failed, getCurrentPosition has been called, and once the initial
\* position and route are through, watchPositionAsync has been called.
C4_BackgroundOutcomeDoesNotGate ==
  \A s \in Sessions :
    bgStatus[s] # "none" =>
      /\ fgStatus[s] = "granted"
      /\ ~Failed(s)
      /\ calls[s]["getCurrentPosition"] = 1
      /\ (location[s] # Null /\ pc[s] # "initRoute" => calls[s]["watchPosition"] = 1)

C4_Witness ==
  \E s \in Sessions : bgStatus[s] = "threw" /\ locationSubscription[s] # Null /\ watching[s]

\* C5: when an updateRoute settles, a failed fetchRoute leaves route and
\* routeInfo as they were, and a successful one makes route the returned
\* response, whole, and routeInfo the formatting of that response.
C5_UpdateRouteAllOrNothing ==
  [][\A s \in Sessions :
       RouteSettles(s) =>
         LET res == lastResult'[s][1]
         IN  IF res.ok
             THEN /\ route'[s] = res.value
                  /\ route'[s][1].coordinates = res.value[1].coordinates
                  /\ route'[s][1].distance = res.value[1].distance
                  /\ route'[s][1].duration = res.value[1].duration
                  /\ routeInfo'[s] = Some([distance |-> formatDistance(res.value[1].distance),
                                          duration |-> formatDuration(res.value[1].duration)])
             ELSE route'[s] = route[s] /\ routeInfo'[s] = routeInfo[s]]_vars

C5_Witness ==
  \E s \in Sessions :
    /\ calls[s]["fetchRoute"] = 2 /\ inflight[s] = {}
    /\ lastResult[s] = Some(Rejected)
    /\ route[s] # Null /\ routeInfo[s] # Null

\* C6: when the initial getCurrentPosition call has failed, the session goes
\* on: watchPositionAsync is called (and the background start attempted after
\* it).
C6_PositionFailureKeepsTracking ==
  \A s \in Sessions :
    (calls[s]["getCurrentPosition"] = 1 /\ pc[s] # "getPos" /\ location[s] = Null)
      => calls[s]["watchPosition"] = 1

\* A step of a socket handler of sendLocationToServer, and a run of the
\* background task.
SocketStep == sockets' # sockets /\ BagCardinality(sockets') = BagCardinality(sockets)
TaskStep == bgCount' # bgCount

Publishes(s) ==
  location'[s] # location[s] \/ route'[s] # route[s] \/ routeInfo'[s] # routeInfo[s]

SendAndTaskFrame ==
  (SocketStep \/ TaskStep) =>
    UNCHANGED <<location, route, routeInfo, isLoading, errorMsg, inflight, calls>>

\* C7 (as stated): no step of a send or of the background task changes
\* location, route or routeInfo or calls fetchRoute, and only the
\* watchPositionAsync callback path writes them.
C7_OnlyCallbackPublishes ==
  [][/\ SendAndTaskFrame
     /\ \A s \in Sessions : Publishes(s) => inflight'[s] # inflight[s]]_vars

\* C7 (amended): no step of a send or of the background task changes location,
\* route or routeInfo or calls fetchRoute; they are written only by the start
\* sequence's initial position and initial route steps and by the
\* watchPositionAsync callback path.
C7_SendAndTaskPublishNothing ==
  [][/\ SendAndTaskFrame
     /\ \A s \in Sessions :
          Publishes(s) =>
            \/ pc[s] \in {"getPos", "initRoute"} /\ pc'[s] # pc[s]
            \/ inflight'[s] # inflight[s]]_vars

C7_Witness ==
  /\ bgCount > 0
  /\ \E k \in SocketValues : BagIn(k, sockets) /\ k.st = "closed"
  /\ \E k \in SocketValues : BagIn(k, sockets) /\ k.st = "retrying"
  /\ \E s \in Sessions : location[s] # Null /\ route[s] # Null

\* C8: startLocationUpdatesAsync never reaches the platform while the
\* background task is registered.
C8_NoStartWhileRegistered ==
  [][\A s \in Sessions : (pc[s] = "bgStart" /\ pc'[s] # "bgStart") => ~bgRegistered]_vars

\* C9: when every earlier session has been stopped and has run to completion
\* (start sequence and cleanup), and the newest session has completed its
\* start sequence with foreground permission and is not stopped, the
\* background task is registered.
C9_RegistrationSurvivesRemount ==
  \A s \in Sessions :
    ( /\ s > 1
      /\ \A t \in Sessions : t < s => pc[t] = "done" /\ cpc[t] = "done"
      /\ \A t \in Sessions : t > s => pc[t] = "idle"
      /\ pc[s] = "done" /\ fgStatus[s] = "granted" /\ cpc[s] = "idle" )
    => bgRegistered

\* C10: a session calls startLocationUpdatesAsync only while it is not
\* stopped.
C10_NoStartAfterStop ==
  [][\A s \in Sessions :
       calls'[s]["startLocationUpdates"] # calls[s]["startLocationUpdates"]
         => ~Stopped(s)]_vars

\* A step of the cleanup of session s.
CleanupStep(s) == cpc'[s] # cpc[s]

\* The cleanup of session s calls stopLocationUpdatesAsync in this step.
CallsStop(s) == cpc[s] = "check" /\ cpc'[s] = "stop"

\* C11: when a session is stopped, its foreground subscription is cancelled
\* before the cleanup calls stopLocationUpdatesAsync, which it calls only
\* after hasStartedLocationUpdatesAsync reported the task as started; only
\* that call unregisters the task; no step of the cleanup changes errorMsg,
\* and after the check the cleanup goes on to the stop call or to its end, and
\* after the stop call to its end, whether the call threw or not.
C11_CancelThenStopOnlyIfStarted ==
  [][\A s \in Sessions :
       /\ CallsStop(s) => ~watching[s] /\ bgRegistered
       /\ CleanupStep(s) =>
             /\ errorMsg'[s] = errorMsg[s]
             /\ cpc[s] = "idle" => cpc'[s] = "check"
             /\ cpc[s] = "check" => cpc'[s] \in {"stop", "done"}
             /\ cpc[s] = "stop" => cpc'[s] = "done"
       /\ (bgRegistered /\ ~bgRegistered') =>
             \E r \in Sessions : cpc[r] = "stop" /\ cpc'[r] = "done"]_vars

\* The sockets of the bag that carry sample l and have emitted it.
EmittedCopies(socks, l) ==
  LET S == {j \in BagToSet(socks) : j.loc = l /\ j.emitted # <<>>}
      RECURSIVE Sum(_)
      Sum(T) == IF T = {} THEN 0
                ELSE LET j == CHOOSE x \in T : TRUE
                     IN  CopiesIn(j, socks) + Sum(T \ {j})
  IN  Sum(S)

\* C12: a call of sendLocationToServer emits its sample at most once, and
\* exactly once when its connection was established at the first attempt:
\* a socket that is connected has emitted one 'location' event, one that is
\* not has emitted none, and a socket whose connection attempt failed never
\* emits afterwards: when it leaves that state, no more sockets have emitted
\* its sample than before.
C12_FailedSendIsDropped ==
  /\ [](\A k \in BagToSet(sockets) :
          /\ Len(k.emitted) <= 1
          /\ k.st \in {"open", "closed"} => k.emitted = <<Payload(k.loc)>>
          /\ k.st \in {"connecting", "retrying"} => k.emitted = <<>>)
  /\ [][\A k \in BagToSet(sockets) :
          (k.st = "retrying" /\ CopiesIn(k, sockets') < CopiesIn(k, sockets))
            => EmittedCopies(sockets', k.loc) <= EmittedCopies(sockets, k.loc)]_vars

\* The socket has been disconnected by the call that opened it.
Released(k) == k.st = "closed"

\* The 'connect' handler has set the timer that disconnects the socket.
ReleaseScheduled(k) == k.st = "open"

\* Neither 'connect' nor 'connect_error' has fired yet.
OutcomePending(k) == k.st = "connecting"

\* C13: every socket opened by a send is released by that send on both
\* outcomes: once 'connect' or 'connect_error' has fired, the socket is
\* disconnected or its disconnect is scheduled, so that no socket stays
\* unreleased when the handlers of the sends have run.
C13_EveryConnectionReleased ==
  \A k \in BagToSet(sockets) :
    OutcomePending(k) \/ ReleaseScheduled(k) \/ Released(k)

\* The geometry of a raw route is not a list of [lon, lat] pairs.
MalformedGeometry(r) ==
  \/ r.geometry = Null
  \/ r.geometry[1].coordinates = Null
  \/ \E i \in 1..Len(r.geometry[1].coordinates[1]) :
        Len(r.geometry[1].coordinates[1][i]) # 2

\* The response is one fetchRoute has to reject.
MustReject(resp) ==
  \/ resp.rejected \/ ~resp.ok
  \/ resp.routes = Null \/ resp.routes[1] = <<>>
  \/ MalformedGeometry(resp.routes[1][1])

\* C14: fetchRoute rejects whenever the response is not a success, has no
\* routes entry or an empty one, or the geometry of the first route is
\* malformed; when it resolves, the result is the first route's coordinates
\* in the provider's order, each [lon, lat] as {latitude, longitude}, with the
\* route's distance and duration unchanged.
C14_FetchRouteRejectsOrConverts ==
  (callArg # Null /\ callArg[1].fn = "fetchRoute" /\ callResult # Null) =>
    LET resp == callArg[1].resp
        res == callResult[1]
    IN  /\ MustReject(resp) => ~res.ok
        /\ res.ok =>
             LET r == resp.routes[1][1]
                 c == r.geometry[1].coordinates[1]
                 v == res.value[1]
             IN  /\ Len(v.coordinates) = Len(c)
                 /\ \A i \in 1..Len(c) :
                       v.coordinates[i] = [latitude |-> Some(c[i][2]),
                                           longitude |-> Some(c[i][1])]
                 /\ v.distance = r.distance
                 /\ v.duration = r.duration

\* The text of n tenths of a kilometre, and of k minutes.
KmText(n) == ToDigits(n \div 10) \o <<".">> \o ToDigits(n % 10) \o <<" ", "k", "m">>
MinText(k) == ToDigits(k) \o <<" ", "m", "i", "n">>

\* fn was called and has returned.
Returned(fn) == callArg # Null /\ callArg[1].fn = fn /\ callResult # Null

\* formatDuration(s) is s / 60 rounded to the nearest whole minute, halves up,
\* followed by " min".
DurationRounded ==
  Returned("formatDuration") =>
    LET s == callArg[1].seconds
    IN  \E k \in 0..(MaxSeconds \div 60 + 1) :
          /\ callResult = Some(MinText(k))
          /\ 60 * k - 30 <= s /\ s < 60 * k + 30

\* C15: formatDistance(m) is m / 1000 rounded to one decimal followed by
\* " km": the nearest number of tenths, and at a tie (m % 100 = 50) the one a
\* rounding rule gives, halves up or halves to even; formatDuration(s) is
\* s / 60 rounded to the nearest whole minute followed by " min".
C15_FormatRoundsToOneDecimal ==
  /\ DurationRounded
  /\ Returned("formatDistance") =>
       LET m == callArg[1].meters
       IN  \E n \in 0..(MaxMeters \div 100 + 1) :
             /\ callResult = Some(KmText(n))
             /\ 100 * n - 50 <= m /\ m <= 100 * n + 50
             /\ m % 100 = 50 => (n = m \div 100 + 1 \/ n % 2 = 0)

\* C16: a session whose background permission request was denied, left
\* undetermined, or threw never calls startLocationUpdatesAsync.
C16_NoBackgroundWithoutPermission ==
  \A s \in Sessions :
    bgStatus[s] \in {"denied", "undetermined", "threw"}
      => calls[s]["startLocationUpdates"] = 0

\* A step in which session s handles a position sample of its own: the
\* initial position, or a sample delivered to its watchPositionAsync callback.
HandlesSample(s) == calls'[s]["send"] = calls[s]["send"] + 1

\* C17: a session calls fetchRoute once when it has its initial position and
\* once for each foreground sample delivered to it, with the coordinates of
\* that sample as origin and DESTINATION as destination, and in no other step:
\* not when the background task handles a sample, not when a fetch has failed.
\* So the calls made are as many as the samples the session has handled.
C17_OneFetchPerSample ==
  /\ [](\A s \in Sessions :
          /\ Cardinality(fetches[s]) = calls[s]["fetchRoute"]
          /\ calls[s]["fetchRoute"] = calls[s]["send"])
  /\ [][\A s \in Sessions :
          LET n == calls[s]["fetchRoute"]
          IN  IF HandlesSample(s)
              THEN /\ calls'[s]["fetchRoute"] = n + 1
                   /\ fetches'[s] = fetches[s] \cup
                        {[id |-> n + 1,
                          origin |-> [latitude |-> location'[s][1].coords.latitude,
                                      longitude |-> location'[s][1].coords.longitude],
                          destination |-> DESTINATION]}
              ELSE /\ calls'[s]["fetchRoute"] = n
                   /\ fetches'[s] = fetches[s]]_vars

\* A session has fetched for its initial position and for one foreground
\* sample, the fetch that settled last has failed, none is in flight, and the
\* background task has handled a sample.
C17_Witness ==
  \E s \in Sessions :
    /\ Cardinality(fetches[s]) = 2
    /\ inflight[s] = {} /\ pc[s] \notin {"getPos", "initRoute"}
    /\ lastResult[s] = Some(Rejected)
    /\ bgCount >= 1

\* The coordinates of a sample, as a fetchRoute request and as a converted
\* route carry them.
Coords(cur) == [latitude |-> cur.coords.latitude, longitude |-> cur.coords.longitude]
RoutePoint(cur) == [latitude |-> Some(cur.coords.latitude),
                    longitude |-> Some(cur.coords.longitude)]

\* The request of session s that was made last.
LastFetch(s) == CHOOSE f \in fetches[s] : \A g \in fetches[s] : g.id <= f.id

\* C18: the position published by a session is the sample it handled last
\* (the one of its latest fetchRoute request), and when every fetch succeeds
\* and none is in flight, the published route is the route from that sample,
\* in whatever order overlapping fetches have settled.
C18_LatestSampleWins ==
  \A s \in Sessions :
    /\ fetches[s] # {} =>
         (location[s] # Null /\ Coords(location[s][1]) = LastFetch(s).origin)
    /\ (fetches[s] # {} /\ inflight[s] = {} /\ pc[s] \notin {"getPos", "initRoute"}) =>
         (route[s] # Null /\ route[s][1].coordinates[1] = RoutePoint(location[s][1]))

\* C19: the send never holds the route lookup back.  In the step in which a
\* session handles a sample, sendLocationToServer returns with its socket
\* still connecting and the fetchRoute for that sample is called in the same
\* step; so a session has called fetchRoute as often as it has sent, whatever
\* has become of the sockets.
C19_SendNeverGatesRouting ==
  /\ [](\A s \in Sessions : calls[s]["fetchRoute"] = calls[s]["send"])
  /\ [][\A s \in Sessions :
          HandlesSample(s) =>
            /\ calls'[s]["fetchRoute"] = calls[s]["fetchRoute"] + 1
            /\ Cardinality(fetches'[s]) = Cardinality(fetches[s]) + 1
            /\ sockets' = sockets (+) SetToBag({[loc |-> location'[s][1],
                                                 st |-> "connecting",
                                                 emitted |-> <<>>]})]_vars

\* No socket has connected, one has failed to, and the session has fetched
\* and published the routes for its initial position and a foreground sample.
C19_Witness ==
  \E s \in Sessions :
    /\ bgCount = 0 /\ BagCardinality(sockets) = 2
    /\ \A k \in BagToSet(sockets) : k.st \in {"connecting", "retrying"}
    /\ \E k \in BagToSet(sockets) : k.st = "retrying"
    /\ Cardinality(fetches[s]) = 2 /\ inflight[s] = {}
    /\ route[s] # Null /\ lastResult[s] # Null /\ lastResult[s][1].ok

\* The start sequence of session s has ended: it ran to its end, or a
\* rejection nothing catches ended it.
StartOver(s) == pc[s] \in {"done", "crashed"}

\* C20: in a session whose foreground permission was granted, isLoading is
\* false when the start sequence has ended, whether the initial position and
\* the initial route were obtained or not, so that the screen does not stay
\* on loading; once false it never is true again; and when it is false a
\* location is published.
C20_LoadingClears ==
  /\ [](\A s \in Sessions :
          /\ (fgStatus[s] = "granted" /\ StartOver(s)) => ~isLoading[s]
          /\ ~isLoading[s] => location[s] # Null)
  /\ [][\A s \in Sessions : ~isLoading[s] => ~isLoading'[s]]_vars

====
